---- MODULE Spec2Model ----
(***************************************************************************)
(* Model of rikki's Analyzer job (analyzer.go): NewAnalyzer builds the     *)
(* comment corpus by walking a directory tree, and Analyzer.process        *)
(* handles one queue message: fetch the solution, post it to analysseur,   *)
(* flatten and shuffle the reported smells, pick the first smell that has  *)
(* a comment and submit that comment.                                      *)
(*                                                                         *)
(* Go strings that the code takes apart (paths, smell types and keys) are  *)
(* sequences of one-character strings; opaque strings (uuids, track ids,   *)
(* hosts, log formats) are TLA+ strings.  Byte slices are sequences.       *)
(***************************************************************************)
EXTENDS Integers, Sequences, FiniteSets, TLC

\* ------------------------------------------------------------------------
\* Bounds of the model
\* ------------------------------------------------------------------------

\* number of workers that run process concurrently
NWorkers == 2

\* largest number of flattened smells (and of results) in the answers that
\* the single worker of SpecOne gets
MaxSmells == 3

\* ------------------------------------------------------------------------
\* Strings
\* ------------------------------------------------------------------------

SLASH == "/"
DOT == "."

HasPrefix(s, p) ==
    /\ Len(p) <= Len(s)
    /\ SubSeq(s, 1, Len(p)) = p

Drop(s, n) == SubSeq(s, n + 1, Len(s))

\* strings.Join(elems, sep)
RECURSIVE StringsJoin(_, _)
StringsJoin(elems, sep) ==
    IF elems = <<>> THEN <<>>
    ELSE IF Len(elems) = 1 THEN elems[1]
    ELSE elems[1] \o sep \o StringsJoin(Tail(elems), sep)

\* strings.Split(s, "/"): the segments between the separators
RECURSIVE SplitFrom(_, _)
SplitFrom(s, cur) ==
    IF s = <<>> THEN <<cur>>
    ELSE IF Head(s) = SLASH THEN <<cur>> \o SplitFrom(Tail(s), <<>>)
    ELSE SplitFrom(Tail(s), Append(cur, Head(s)))

Split(s) == SplitFrom(s, <<>>)

\* strings.TrimLeft(s, "/"): drops every leading separator
RECURSIVE TrimLeft(_)
TrimLeft(s) ==
    IF s # <<>> /\ Head(s) = SLASH THEN TrimLeft(Tail(s)) ELSE s

\* The lexical pass of filepath.Clean over the segments of a path: empty
\* and "." segments vanish, ".." removes the segment before it, and a ".."
\* with nothing to remove is kept in a relative path and dropped in a
\* rooted one.
RECURSIVE CleanSegs(_, _, _)
CleanSegs(segs, out, rooted) ==
    IF segs = <<>> THEN out
    ELSE LET e == Head(segs)
             rest == Tail(segs)
         IN IF e = <<>> \/ e = <<DOT>> THEN CleanSegs(rest, out, rooted)
            ELSE IF e = <<DOT, DOT>>
                 THEN IF out # <<>> /\ out[Len(out)] # <<DOT, DOT>>
                      THEN CleanSegs(rest, SubSeq(out, 1, Len(out) - 1), rooted)
                      ELSE IF rooted THEN CleanSegs(rest, out, rooted)
                      ELSE CleanSegs(rest, Append(out, e), rooted)
            ELSE CleanSegs(rest, Append(out, e), rooted)

\* filepath.Clean
Clean(path) ==
    IF path = <<>> THEN <<DOT>>
    ELSE LET rooted == Head(path) = SLASH
             body == StringsJoin(CleanSegs(Split(path), <<>>, rooted), <<SLASH>>)
         IN IF rooted THEN <<SLASH>> \o body
            ELSE IF body = <<>> THEN <<DOT>>
            ELSE body

\* filepath.Join: empty elements are ignored, the rest is joined with the
\* separator and cleaned; all elements empty gives the empty string.
FilepathJoin(elems) ==
    LET nonEmpty == SelectSeq(elems, LAMBDA e : e # <<>>)
    IN IF nonEmpty = <<>> THEN <<>>
       ELSE Clean(StringsJoin(nonEmpty, <<SLASH>>))

ANALYZER == <<"a", "n", "a", "l", "y", "z", "e", "r">>
RUBY == <<"r", "u", "b", "y">>
MD == <<".", "m", "d">>

\* strings.NewReplacer(dir, "", ".md", "").Replace(path): scanning from the
\* left, every occurrence of dir and of ".md" is removed, dir taking
\* precedence where both match.
RECURSIVE Replace(_, _)
Replace(dir, path) ==
    IF path = <<>> THEN <<>>
    ELSE IF HasPrefix(path, dir) THEN Replace(dir, Drop(path, Len(dir)))
    ELSE IF HasPrefix(path, MD) THEN Replace(dir, Drop(path, Len(MD)))
    ELSE <<Head(path)>> \o Replace(dir, Tail(path))

\* ------------------------------------------------------------------------
\* The directory tree that NewAnalyzer walks
\* ------------------------------------------------------------------------

\* file contents (byte slices); the first one is an empty file
EMPTY == <<>>
C1 == <<"c", "1">>
C2 == <<"c", "2">>

\* The candidate entries under the root, in the lexical order in which
\* filepath.Walk visits them: each group is a chain of directories and the
\* one file below it.  Names are relative to the root.
Groups ==
    << [dirs |-> << <<"/", "a">> >>,
        file |-> <<"/", "a", "/", "x">> \o MD],
       [dirs |-> << <<SLASH>> \o ANALYZER,
                    <<SLASH>> \o ANALYZER \o <<SLASH>> \o RUBY >>,
        file |-> <<SLASH>> \o ANALYZER \o <<SLASH>> \o RUBY \o <<"/", "w">> \o MD],
       [dirs |-> << <<"/", "b">> >>,
        file |-> <<"/", "b", "/", "y">> \o MD],
       [dirs |-> << <<"/", "v">> \o MD >>,
        file |-> <<"/", "v">> \o MD \o <<"/", "z">> \o MD] >>

\* What the walk meets in a group: nothing at all, a directory that cannot
\* be listed, a file that cannot be lstat'ed, a file that cannot be read,
\* or a file with some content.
SlotStates == {"absent", "nolist", "nostat", "noread", "empty", "c1", "c2"}

ContentOf(st) == IF st = "c1" THEN C1 ELSE IF st = "c2" THEN C2 ELSE EMPTY

DirEntry(name, listErr) ==
    [name |-> name, isDir |-> TRUE, lstatErr |-> FALSE, ioErr |-> listErr,
     content |-> EMPTY]

FileEntry(name, st) ==
    [name |-> name, isDir |-> FALSE, lstatErr |-> (st = "nostat"),
     ioErr |-> (st = "noread"), content |-> ContentOf(st)]

GroupEntries(g, st) ==
    IF st = "absent" THEN <<>>
    ELSE LET n == Len(g.dirs)
         IN [k \in 1..n |-> DirEntry(g.dirs[k], k = n /\ st = "nolist")]
            \o (IF st = "nolist" THEN <<>> ELSE <<FileEntry(g.file, st)>>)

RECURSIVE EntriesFrom(_, _)
EntriesFrom(slots, k) ==
    IF k > Len(Groups) THEN <<>>
    ELSE GroupEntries(Groups[k], slots[k]) \o EntriesFrom(slots, k + 1)

RootStates == {"ok", "missing", "nolist"}

\* The walk order of a tree: the root first, then the groups.
Entries(root, slots) ==
    IF root = "missing"
    THEN << [name |-> <<>>, isDir |-> TRUE, lstatErr |-> TRUE, ioErr |-> FALSE,
             content |-> EMPTY] >>
    ELSE IF root = "nolist" THEN << DirEntry(<<>>, TRUE) >>
    ELSE << DirEntry(<<>>, FALSE) >> \o EntriesFrom(slots, 1)

\* the dir argument of NewAnalyzer
Dirs == { <<>>, <<"d">> }

Tree(dir, root, slots) == [dir |-> dir, entries |-> Entries(root, slots)]

FileSystems ==
    { Tree(d, "ok", sl) : d \in Dirs, sl \in [1..Len(Groups) -> SlotStates] }
    \cup { Tree(d, r, [k \in 1..Len(Groups) |-> "absent"]) :
              d \in Dirs, r \in {"missing", "nolist"} }

\* ------------------------------------------------------------------------
\* NewAnalyzer
\* ------------------------------------------------------------------------

\* dir = filepath.Join(dir, "analyzer", "ruby")
RootDir(dir) == FilepathJoin(<<dir, ANALYZER, RUBY>>)

\* os.FileInfo handed to the walk function; NilInfo is the nil interface
\* that filepath.Walk passes when lstat failed.
NilInfo == [nil |-> TRUE]
Info(e) == IF e.lstatErr THEN NilInfo ELSE [nil |-> FALSE, isDir |-> e.isDir]

\* read(path): the content of the file or an I/O error
read(e) == [b |-> e.content, err |-> e.ioErr]

\* comments[key] = b
Put(cm, key, b) ==
    [k \in (DOMAIN cm) \cup {key} |-> IF k = key THEN b ELSE cm[k]]

\* The walk function of NewAnalyzer, called for one entry.  ret is "nil",
\* "err", or "panic" for the nil dereference of info.IsDir().
fn(dir, cm, path, info, rd) ==
    IF info.nil THEN [ret |-> "panic", comments |-> cm]
    ELSE IF info.isDir THEN [ret |-> "nil", comments |-> cm]
    ELSE IF rd.err THEN [ret |-> "err", comments |-> cm]
    ELSE LET key == TrimLeft(Replace(dir, path))
         IN [ret |-> "nil", comments |-> Put(cm, key, rd.b)]

\* filepath.Walk visiting one entry: the walk function is called with the
\* entry (with a nil info after a failed lstat), and once more with the
\* error when a directory could not be listed; the walk goes on while it
\* returns nil.
Visit(dir, cm, e) ==
    LET path == dir \o e.name
        r == fn(dir, cm, path, Info(e), read(e))
    IN IF r.ret = "nil" /\ e.isDir /\ e.ioErr
       THEN fn(dir, r.comments, path, Info(e), read(e))
       ELSE r

EmptyMap == [k \in {} |-> EMPTY]

\* NewAnalyzer run to its end from entry pos on
RECURSIVE WalkFrom(_, _, _)
WalkFrom(tree, pos, cm) ==
    IF pos > Len(tree.entries) THEN [outcome |-> "ok", comments |-> cm]
    ELSE LET r == Visit(RootDir(tree.dir), cm, tree.entries[pos])
         IN IF r.ret = "panic" THEN [outcome |-> "panic", comments |-> cm]
            ELSE IF r.ret = "err" THEN [outcome |-> "error", comments |-> cm]
            ELSE WalkFrom(tree, pos + 1, r.comments)

NewAnalyzer(tree) == WalkFrom(tree, 1, EmptyMap)

\* ------------------------------------------------------------------------
\* The inputs of process
\* ------------------------------------------------------------------------

Workers == 1..NWorkers

\* JSON values of the queue message's argument list
Str(v) == [type |-> "string", val |-> v]
Num(v) == [type |-> "number", val |-> v]
Null == [type |-> "null", val |-> ""]

UUIDs == {"abc123", "def456"}

\* msg.Args(): no argument, a first argument that is no string, or a uuid
Msgs == { <<>>, <<Num("42")>> } \cup { <<Str(u)>> : u \in UUIDs }

\* simplejson GetIndex: the element, or a null value when it is missing
GetIndex(args, n) == IF n < Len(args) THEN args[n + 1] ELSE Null

\* a String that converts whatever it is given
String_lenient(v) == [val |-> v.val, err |-> FALSE]

\* simplejson String: a type assertion
String(v) ==
    IF v.type = "string" THEN [val |-> v.val, err |-> FALSE]
    ELSE [val |-> "", err |-> TRUE]

CODE == <<"c", "o", "d", "e">>
NEWLINE == "\n"

NoSolution == [TrackID |-> "", Files |-> <<>>]

Solutions ==
    { [TrackID |-> t, Files |-> <<CODE, CODE>>] : t \in {"ruby", "go"} }

\* what exercism.FetchSolution returns
FetchResults ==
    { [err |-> TRUE, solution |-> NoSolution] }
    \cup { [err |-> FALSE, solution |-> s] : s \in Solutions }

\* the hosts analysseurHost is configured with; the second one does not
\* parse as a URL
GoodHost == "http://analysseur"
BadHost == "%zz"
Hosts == {GoodHost, BadHost}

\* smell types and keys
TA == <<"a">>
TB == <<"b">>
KX == <<"x">>
KY == <<"y">>
KUP == <<".", ".", "/", "b", "/", "y">>

Types == {TA, TB}
Keys == {KX, KY}

Result(t, ks) == [Type |-> t, Keys |-> ks]

\* response bodies: a JSON object with some of the fields results and
\* error, or something that is no JSON
Garbage == [json |-> FALSE]
Body(results, error) ==
    [json |-> TRUE, obj |-> [f \in {"results", "error"} |->
                                IF f = "results" THEN results ELSE error]]
ErrorBody(error) == [json |-> TRUE, obj |-> [f \in {"error"} |-> error]]
NoFields == [json |-> TRUE, obj |-> [f \in {} |-> ""]]

StatusOK == 200
StatusInternalServerError == 500

\* what http.DefaultClient.Do and reading the body give
NoResp == [doErr |-> FALSE, readErr |-> FALSE, StatusCode |-> 0, body |-> Garbage]
Answer(status, body) ==
    [doErr |-> FALSE, readErr |-> FALSE, StatusCode |-> status, body |-> body]
TransportFailure == [NoResp EXCEPT !.doErr = TRUE]
ReadFailure(status) == [NoResp EXCEPT !.readErr = TRUE, !.StatusCode = status]

\* The results that the workers of Spec are answered with.
SomeResults ==
    { <<>>,
      << Result(TA, <<KX>>) >>,
      << Result(TA, <<KY>>) >>,
      << Result(TB, <<>>) >>,
      << Result(TB, <<KY, KX>>) >>,
      << Result(TA, <<KX>>), Result(TB, <<KY>>) >>,
      << Result(TA, <<KUP, <<>>>>) >> }

\* the answers that carry no payload
Failures ==
    { TransportFailure, ReadFailure(StatusOK),
      Answer(StatusOK, Garbage),
      Answer(StatusOK, NoFields),
      Answer(StatusOK, ErrorBody("timeout")) }

\* The answers that the workers of Spec get.
Responses ==
    Failures
    \cup { Answer(StatusOK, Body(<< Result(TA, <<KX>>) >>, "timeout")),
           Answer(StatusInternalServerError, Body(<< Result(TA, <<KX>>) >>, "")) }
    \cup { Answer(StatusOK, Body(rs, "")) : rs \in SomeResults }

\* Every sequence of at most m results with at most n keys in all.
RECURSIVE ResultsUpTo(_, _)
ResultsUpTo(m, n) ==
    IF m = 0 THEN { <<>> }
    ELSE { <<>> } \cup
         UNION { { << Result(t, ks) >> \o rest :
                     t \in Types, ks \in [1..k -> Keys],
                     rest \in ResultsUpTo(m - 1, n - k) } : k \in 0..n }

\* The results that the worker of SpecOne is answered with.
AllResults == ResultsUpTo(MaxSmells, MaxSmells)

\* every status and every error string with each of them
AllResponses ==
    Failures
    \cup { Answer(st, Body(rs, e)) :
             st \in {StatusOK, StatusInternalServerError},
             e \in {"", "timeout"}, rs \in AllResults }

\* ------------------------------------------------------------------------
\* State
\* ------------------------------------------------------------------------

VARIABLES
    tree,            \* the directory tree given to NewAnalyzer
    walkPos,         \* the entry filepath.Walk visits next
    outcome,         \* of NewAnalyzer: "walking", "ok", "error" or "panic"
    comments,        \* analyzer.comments
    analysseurHost,  \* analyzer.analysseurHost
    pc,              \* where each worker is in process
    msg,             \* the arguments of the message a worker handles
    uuid,
    solution,
    req,             \* the request prepared for analysseur
    resp,            \* its response
    ap,              \* the parsed analysisPayload
    smells,
    i,               \* the index of the shuffle loop
    comment,
    calls,           \* the outbound calls a worker has made, in order
    lgr,             \* the lines of the lgr.Printf calls a worker has made
    sanity           \* what a worker wrote to the sanity logger

corpusVars == <<tree, walkPos, outcome, comments, analysseurHost>>
jobVars == <<pc, msg, uuid, solution, req, resp, ap, smells, i, comment,
             calls, lgr, sanity>>
vars == <<tree, walkPos, outcome, comments, analysseurHost, pc, msg, uuid,
          solution, req, resp, ap, smells, i, comment, calls, lgr, sanity>>

NoReq == [url |-> [host |-> "", path |-> <<>>], body |-> <<>>]
NoPayload == [Results |-> <<>>, Error |-> ""]

\* no worker has taken a message yet
InitJobs ==
    /\ pc = [w \in Workers |-> "idle"]
    /\ msg = [w \in Workers |-> <<>>]
    /\ uuid = [w \in Workers |-> ""]
    /\ solution = [w \in Workers |-> NoSolution]
    /\ req = [w \in Workers |-> NoReq]
    /\ resp = [w \in Workers |-> NoResp]
    /\ ap = [w \in Workers |-> NoPayload]
    /\ smells = [w \in Workers |-> <<>>]
    /\ i = [w \in Workers |-> 0]
    /\ comment = [w \in Workers |-> EMPTY]
    /\ calls = [w \in Workers |-> <<>>]
    /\ lgr = [w \in Workers |-> <<>>]
    /\ sanity = [w \in Workers |-> <<>>]

\* The trees the analyzer of Spec was built from: comments for a/x and
\* b/y, the second of them an empty file in one of the trees.
JobTrees ==
    { Tree(<<"d">>, "ok", <<"c1", "absent", st, "absent">>) : st \in {"c2", "empty"} }

\* The state after NewAnalyzer has returned an Analyzer.
Init ==
    /\ tree \in JobTrees
    /\ walkPos = Len(tree.entries) + 1
    /\ outcome = NewAnalyzer(tree).outcome
    /\ outcome = "ok"
    /\ comments = NewAnalyzer(tree).comments
    /\ analysseurHost \in Hosts
    /\ InitJobs

\* The state in which NewAnalyzer is called.
InitCorpus ==
    /\ tree \in FileSystems
    /\ walkPos = 1
    /\ outcome = "walking"
    /\ comments = EmptyMap
    /\ analysseurHost = GoodHost
    /\ InitJobs

\* ------------------------------------------------------------------------
\* NewAnalyzer, entry by entry
\* ------------------------------------------------------------------------

\* filepath.Walk visits the next entry and calls the walk function on it
Walk ==
    /\ outcome = "walking"
    /\ walkPos <= Len(tree.entries)
    /\ LET r == Visit(RootDir(tree.dir), comments, tree.entries[walkPos])
       IN /\ comments' = r.comments
          /\ outcome' = IF r.ret = "panic" THEN "panic"
                        ELSE IF r.ret = "err" THEN "error"
                        ELSE "walking"
    /\ walkPos' = walkPos + 1
    /\ UNCHANGED <<tree, analysseurHost>>
    /\ UNCHANGED jobVars

\* filepath.Walk returned nil: NewAnalyzer returns the Analyzer
Return ==
    /\ outcome = "walking"
    /\ walkPos > Len(tree.entries)
    /\ outcome' = "ok"
    /\ UNCHANGED <<tree, walkPos, comments, analysseurHost>>
    /\ UNCHANGED jobVars

NextCorpus == Walk \/ Return

SpecCorpus == InitCorpus /\ [][NextCorpus]_vars

\* ------------------------------------------------------------------------
\* Analyzer.process
\* ------------------------------------------------------------------------

Log(w, line) == lgr' = [lgr EXCEPT ![w] = Append(@, line)]
Call(w, c) == calls' = [calls EXCEPT ![w] = Append(@, c)]
Goto(w, label) == pc' = [pc EXCEPT ![w] = label]

\* url.Parse, as far as http.NewRequest depends on it
Parses(host) == host # BadHost

\* fmt.Sprintf("%s/analyze/%s", analyzer.analysseurHost, solution.TrackID)
Url(host, track) == [host |-> host, path |-> <<"analyze", track>>]

\* json.Marshal of {"code": strings.Join(sources, "\n")}
CodeBody(sources) == StringsJoin(sources, <<NEWLINE>>)

\* json.Unmarshal(body, &ap): a field that the object lacks keeps its zero
\* value
Unmarshal(body) ==
    IF ~body.json THEN [err |-> TRUE, ap |-> NoPayload]
    ELSE [err |-> FALSE,
          ap |-> [Results |-> IF "results" \in DOMAIN body.obj
                              THEN body.obj["results"] ELSE <<>>,
                  Error |-> IF "error" \in DOMAIN body.obj
                            THEN body.obj["error"] ELSE ""]]

\* filepath.Join(result.Type, key)
Smell(type, key) == FilepathJoin(<<type, key>>)

\* the smells of one result, in the order of its keys
SmellsOf(result) == [k \in 1..Len(result.Keys) |-> Smell(result.Type, result.Keys[k])]

\* lines 149-155: the smells of all results, in order
RECURSIVE Flatten(_)
Flatten(results) ==
    IF results = <<>> THEN <<>>
    ELSE SmellsOf(Head(results)) \o Flatten(Tail(results))

\* what the sanity logger prints for the results
RECURSIVE SanityLines(_, _)
SanityLines(u, results) ==
    IF results = <<>> THEN <<>>
    ELSE LET r == Head(results)
         IN [k \in 1..Len(r.Keys) |-> [uuid |-> u, type |-> r.Type, key |-> r.Keys[k]]]
            \o SanityLines(u, Tail(results))

\* a swap that assigns one side only
Swap_oneSided(s, a, b) == [s EXCEPT ![a + 1] = s[b + 1]]

\* smells[i], smells[j] = smells[j], smells[i], with the indexes of the code
Swap(s, a, b) == [s EXCEPT ![a + 1] = s[b + 1], ![b + 1] = s[a + 1]]

\* a draw over the whole slice in every round
DrawRange_whole(k, n) == 0..(n - 1)

\* line 159: what rand.Intn(i + 1) can return in round i of the loop over
\* n smells
DrawRange(k, n) == 0..k

\* lines 158-161 run from round k on with the draws d[k + 1], d[k + 2], ...
RECURSIVE ShuffleFrom(_, _, _)
ShuffleFrom(s, k, d) ==
    IF k >= Len(s) THEN s
    ELSE ShuffleFrom(Swap(s, k, d[k + 1]), k + 1, d)

\* the shuffle as a function of the draws
Shuffle(s, d) == ShuffleFrom(s, 0, d)

\* the sequences of draws that the loop over n smells can make
DrawSeqs(n) ==
    { d \in [1..n -> 0..(n - 1)] : \A k \in 1..n : d[k] \in DrawRange(k - 1, n) }

\* a loop test that misses the end of the slice
AfterRound_offByOne(k, n) == IF k = n THEN "select" ELSE "shuffle"

\* line 158: the loop ends after the round of the last index
AfterRound(k, n) == IF k + 1 = n THEN "select" ELSE "shuffle"

\* analyzer.comments[smell]: a missing key gives the nil slice
Lookup(cm, smell) == IF smell \in DOMAIN cm THEN cm[smell] ELSE EMPTY

\* a scan that stops at the first smell, comment or not
FirstComment_headOnly(cm, ss) ==
    IF ss = <<>> THEN EMPTY ELSE Lookup(cm, Head(ss))

\* a scan that takes the first smell that is a key, empty content or not
RECURSIVE FirstComment_anyKey(_, _)
FirstComment_anyKey(cm, ss) ==
    IF ss = <<>> THEN EMPTY
    ELSE IF Head(ss) \in DOMAIN cm THEN cm[Head(ss)]
    ELSE FirstComment_anyKey(cm, Tail(ss))

\* lines 164-172: the first comment of non-zero length, or nil
RECURSIVE FirstComment(_, _)
FirstComment(cm, ss) ==
    IF ss = <<>> THEN EMPTY
    ELSE LET b == Lookup(cm, Head(ss))
         IN IF Len(b) > 0 THEN b ELSE FirstComment(cm, Tail(ss))

\* line 85: the only track that is analysed
TrackSupported_any(track) == TRUE

TrackSupported(track) == track = "ruby"

\* a status check that lets every answer through
Rejected_never(r) == FALSE

\* line 125: only status OK is accepted
Rejected(r) == r.StatusCode # StatusOK

\* lines 137-145: what becomes of a parsed payload: the line of the log
\* entry written for it (0 for none) and whether the job goes on
Verdict_ignoresError(p) ==
    IF Len(p.Results) = 0 THEN [log |-> 0, goon |-> FALSE]
    ELSE [log |-> 0, goon |-> TRUE]

Verdict_logsEmpty(p) ==
    IF p.Error # "" THEN [log |-> 138, goon |-> FALSE]
    ELSE IF Len(p.Results) = 0 THEN [log |-> 143, goon |-> FALSE]
    ELSE [log |-> 0, goon |-> TRUE]

Verdict(p) ==
    IF p.Error # "" THEN [log |-> 138, goon |-> FALSE]
    ELSE IF Len(p.Results) = 0 THEN [log |-> 0, goon |-> FALSE]
    ELSE [log |-> 0, goon |-> TRUE]

\* line 174: the job goes on to submit a comment of non-zero length
Found_always(c) == TRUE

Found(c) == Len(c) # 0

\* lines 179-182: process returns after SubmitComment, failed or not
AfterSubmit_retry(err) == IF err THEN "submit" ELSE "done"

AfterSubmit(err) == "done"

\* the submission key kept in one place for all the workers
process_start_sharedKey(w, m) ==
    /\ pc[w] = "idle"
    /\ msg' = [msg EXCEPT ![w] = m]
    /\ LET r == String(GetIndex(m, 0))
       IN IF r.err
          THEN /\ Log(w, 75)
               /\ Goto(w, "done")
               /\ UNCHANGED uuid
          ELSE /\ uuid' = [v \in Workers |-> r.val]
               /\ Goto(w, "fetch")
               /\ UNCHANGED lgr
    /\ UNCHANGED <<solution, req, resp, ap, smells, i, comment, calls, sanity>>
    /\ UNCHANGED corpusVars

\* lines 73-77: a worker takes message m off the queue
process_start(w, m) ==
    /\ pc[w] = "idle"
    /\ msg' = [msg EXCEPT ![w] = m]
    /\ LET r == String(GetIndex(m, 0))
       IN IF r.err
          THEN /\ Log(w, 75)
               /\ Goto(w, "done")
               /\ UNCHANGED uuid
          ELSE /\ uuid' = [uuid EXCEPT ![w] = r.val]
               /\ Goto(w, "fetch")
               /\ UNCHANGED lgr
    /\ UNCHANGED <<solution, req, resp, ap, smells, i, comment, calls, sanity>>
    /\ UNCHANGED corpusVars

\* lines 79-112: FetchSolution returns f; the track is checked and the
\* request to analysseur prepared
process_fetch(w, f) ==
    /\ pc[w] = "fetch"
    /\ Call(w, [op |-> "FetchSolution", uuid |-> uuid[w]])
    /\ IF f.err
       THEN /\ Log(w, 81)
            /\ Goto(w, "done")
            /\ UNCHANGED <<solution, req>>
       ELSE /\ solution' = [solution EXCEPT ![w] = f.solution]
            /\ IF ~TrackSupported(f.solution.TrackID)
               THEN /\ Log(w, 86)
                    /\ Goto(w, "done")
                    /\ UNCHANGED req
               ELSE IF ~Parses(analysseurHost)
               THEN /\ Log(w, 110)
                    /\ Goto(w, "done")
                    /\ UNCHANGED req
               ELSE /\ req' = [req EXCEPT ![w] =
                                  [url |-> Url(analysseurHost, f.solution.TrackID),
                                   body |-> CodeBody(f.solution.Files)]]
                    /\ Goto(w, "do")
                    /\ UNCHANGED lgr
    /\ UNCHANGED <<msg, uuid, resp, ap, smells, i, comment, sanity>>
    /\ UNCHANGED corpusVars

\* lines 113-155: the request is sent and answered with r; the payload is
\* parsed and checked and the smells are flattened
process_do(w, r) ==
    /\ pc[w] = "do"
    /\ Call(w, [op |-> "POST", url |-> req[w].url, body |-> req[w].body])
    /\ resp' = [resp EXCEPT ![w] = r]
    /\ LET u == Unmarshal(r.body)
       IN IF r.doErr
          THEN /\ Log(w, 115)
               /\ Goto(w, "done")
               /\ UNCHANGED <<ap, smells, sanity>>
          ELSE IF r.readErr
          THEN /\ Log(w, 121)
               /\ Goto(w, "done")
               /\ UNCHANGED <<ap, smells, sanity>>
          ELSE IF Rejected(r)
          THEN /\ Log(w, 126)
               /\ Goto(w, "done")
               /\ UNCHANGED <<ap, smells, sanity>>
          ELSE IF u.err
          THEN /\ Log(w, 133)
               /\ Goto(w, "done")
               /\ UNCHANGED <<ap, smells, sanity>>
          ELSE /\ ap' = [ap EXCEPT ![w] = u.ap]
               /\ IF ~Verdict(u.ap).goon
                  THEN /\ IF Verdict(u.ap).log # 0
                          THEN Log(w, Verdict(u.ap).log)
                          ELSE UNCHANGED lgr
                       /\ Goto(w, "done")
                       /\ UNCHANGED <<smells, sanity>>
                  ELSE /\ smells' = [smells EXCEPT ![w] = Flatten(u.ap.Results)]
                       /\ sanity' = [sanity EXCEPT ![w] = SanityLines(uuid[w], u.ap.Results)]
                       /\ Goto(w, IF Flatten(u.ap.Results) = <<>> THEN "select" ELSE "shuffle")
                       /\ UNCHANGED lgr
    /\ UNCHANGED <<msg, uuid, solution, req, i, comment>>
    /\ UNCHANGED corpusVars

\* lines 158-161: one round of the shuffle loop, rand.Intn(i + 1) giving j
process_shuffle(w, j) ==
    /\ pc[w] = "shuffle"
    /\ i[w] < Len(smells[w])
    /\ smells' = [smells EXCEPT ![w] = Swap(@, i[w], j)]
    /\ i' = [i EXCEPT ![w] = @ + 1]
    /\ Goto(w, AfterRound(i[w], Len(smells[w])))
    /\ UNCHANGED <<msg, uuid, solution, req, resp, ap, comment, calls, lgr, sanity>>
    /\ UNCHANGED corpusVars

\* a selection that takes the chosen comment out of the corpus
process_select_consuming(w) ==
    /\ pc[w] = "select"
    /\ LET c == FirstComment(comments, smells[w])
       IN /\ comment' = [comment EXCEPT ![w] = c]
          /\ comments' = [k \in DOMAIN comments |->
                             IF comments[k] = c THEN EMPTY ELSE comments[k]]
          /\ Goto(w, IF Found(c) THEN "submit" ELSE "done")
    /\ UNCHANGED <<msg, uuid, solution, req, resp, ap, smells, i, calls, lgr, sanity>>
    /\ UNCHANGED <<tree, walkPos, outcome, analysseurHost>>

\* lines 163-176: the first available comment, or the end of the job
process_select(w) ==
    /\ pc[w] = "select"
    /\ LET c == FirstComment(comments, smells[w])
       IN /\ comment' = [comment EXCEPT ![w] = c]
          /\ Goto(w, IF Found(c) THEN "submit" ELSE "done")
    /\ UNCHANGED <<msg, uuid, solution, req, resp, ap, smells, i, calls, lgr, sanity>>
    /\ UNCHANGED corpusVars

\* lines 178-181: SubmitComment, failing or not
process_submit(w, err) ==
    /\ pc[w] = "submit"
    /\ Call(w, [op |-> "SubmitComment", comment |-> comment[w], uuid |-> uuid[w]])
    /\ IF err THEN Log(w, 180) ELSE UNCHANGED lgr
    /\ Goto(w, AfterSubmit(err))
    /\ UNCHANGED <<msg, uuid, solution, req, resp, ap, smells, i, comment, sanity>>
    /\ UNCHANGED corpusVars

\* one step of worker w after it has taken its message, the analysis
\* service answering from answers
proceed(w, answers) ==
    \/ \E f \in FetchResults : process_fetch(w, f)
    \/ pc[w] = "do" /\ \E r \in answers : process_do(w, r)
    \/ \E j \in DrawRange(i[w], Len(smells[w])) : process_shuffle(w, j)
    \/ process_select(w)
    \/ \E err \in BOOLEAN : process_submit(w, err)

\* one step of worker w
process(w, answers) ==
    \/ \E m \in Msgs : process_start(w, m)
    \/ proceed(w, answers)

\* any number of workers handle one message each
Next == \E w \in Workers : process(w, Responses)

Spec == Init /\ [][Next]_vars

\* Every outbound call returns and every worker goes on running: a job
\* that has started keeps taking steps.  Nothing makes a worker take a
\* message.
Fairness == \A w \in Workers : WF_vars(proceed(w, Responses))

SpecLive == Init /\ [][Next]_vars /\ Fairness

\* one worker, answered with every payload within the bound
NextOne == process(1, AllResponses)

SpecOne == Init /\ [][NextOne]_vars

\* ------------------------------------------------------------------------
\* Properties
\* ------------------------------------------------------------------------

Range(f) == { f[k] : k \in DOMAIN f }

CallsOf(w, op) == SelectSeq(calls[w], LAMBDA c : c.op = op)
SubmitCalls(w) == CallsOf(w, "SubmitComment")
PostCalls(w) == CallsOf(w, "POST")
FetchCalls(w) == CallsOf(w, "FetchSolution")

\* the analysis service answered worker w with status OK and a JSON object
ParsedOK(w) ==
    /\ ~resp[w].doErr
    /\ ~resp[w].readErr
    /\ resp[w].StatusCode = StatusOK
    /\ resp[w].body.json

\* the flattened identifiers of the payload of worker w
Identifiers(w) == Range(Flatten(ap[w].Results))

\* those that are keys of the corpus, and those with a comment to submit
KeyedIdentifiers(w) == { id \in Identifiers(w) : id \in DOMAIN comments }
CommentedIdentifiers(w) == { id \in Identifiers(w) : Len(Lookup(comments, id)) > 0 }

\* worker w is past the selection step
Selected(w) ==
    /\ pc[w] \in {"submit", "done"}
    /\ ParsedOK(w)
    /\ ap[w].Error = ""
    /\ ap[w].Results # <<>>

\* C1: every job makes at most one SubmitComment call, and makes it only
\* with a comment that the selection found among the smells of that job,
\* with any number of jobs running at once.
C1_SubmitAtMostOnce ==
    \A w \in Workers :
        /\ Len(SubmitCalls(w)) <= 1
        /\ Len(SubmitCalls(w)) = 1 =>
              /\ Len(comment[w]) > 0
              /\ SubmitCalls(w)[1].comment = comment[w]
              /\ \E n \in 1..Len(smells[w]) :
                    Lookup(comments, smells[w][n]) = comment[w]

\* two jobs have each submitted their comment, one of the calls having failed
C1_Witness ==
    \E v, w \in Workers :
        /\ v # w
        /\ pc[v] = "done" /\ Len(SubmitCalls(v)) = 1 /\ lgr[v] = <<180>>
        /\ pc[w] = "done" /\ Len(SubmitCalls(w)) = 1 /\ lgr[w] = <<>>

\* C2: a finished job whose fetch succeeded with the supported track and
\* whose analysis was answered with status OK, an empty error and results
\* of which exactly one flattened identifier has a comment in the corpus
\* has called SubmitComment exactly once, with that comment and with the
\* submission id of its queue message.
C2_EndToEnd ==
    \A w \in Workers :
        ( /\ pc[w] = "done"
          /\ solution[w].TrackID = "ruby"
          /\ ParsedOK(w)
          /\ ap[w].Error = "" )
        => LET commented == CommentedIdentifiers(w)
           IN \A id \in commented :
                 commented = {id}
                 => SubmitCalls(w) = << [op |-> "SubmitComment",
                                         comment |-> comments[id],
                                         uuid |-> msg[w][1].val] >>

\* such a job with three smells, the commented one not the first found
C2_Witness ==
    \E w \in Workers :
        /\ pc[w] = "done"
        /\ solution[w].TrackID = "ruby"
        /\ ParsedOK(w)
        /\ ap[w].Error = ""
        /\ Cardinality(CommentedIdentifiers(w)) = 1
        /\ Len(smells[w]) = 3
        /\ smells[w][1] \notin CommentedIdentifiers(w)
        /\ Len(SubmitCalls(w)) = 1

\* C3: a job whose message has no first argument, or a first argument that
\* is no string, ends without any FetchSolution, analysis or SubmitComment
\* call.
C3_BadMessageNoCalls ==
    \A w \in Workers :
        ( /\ pc[w] # "idle"
          /\ \/ msg[w] = <<>>
             \/ msg[w][1].type # "string" )
        => /\ calls[w] = <<>>
           /\ pc[w] = "done"

\* one job got no argument and another one a number
C3_Witness ==
    \E v, w \in Workers :
        /\ pc[v] = "done" /\ msg[v] = <<>>
        /\ pc[w] = "done" /\ msg[w] # <<>> /\ msg[w][1].type = "number"

\* C4: a job whose fetched submission is not of the track "ruby" ends
\* without an analysis request and without a SubmitComment call.
C4_UnsupportedTrackNoCalls ==
    \A w \in Workers :
        ( /\ solution[w] # NoSolution
          /\ solution[w].TrackID # "ruby" )
        => /\ PostCalls(w) = <<>>
           /\ SubmitCalls(w) = <<>>
           /\ pc[w] = "done"

\* a job has fetched a submission of the track "go"
C4_Witness ==
    \E w \in Workers :
        /\ pc[w] = "done"
        /\ Len(FetchCalls(w)) = 1
        /\ solution[w].TrackID = "go"

\* C5: a job whose parsed payload has a non-empty error never calls
\* SubmitComment, whatever the results of the payload are.
C5_ErrorNoSubmit ==
    \A w \in Workers :
        ap[w].Error # "" =>
            /\ SubmitCalls(w) = <<>>
            /\ pc[w] = "done"

\* a payload with an error and with results that all have comments
C5_Witness ==
    \E w \in Workers :
        /\ pc[w] = "done"
        /\ ap[w].Error # ""
        /\ Cardinality(Identifiers(w)) >= 2
        /\ CommentedIdentifiers(w) = Identifiers(w)

\* C6: a job whose parsed payload has no results ends without a
\* SubmitComment call, and unless the payload carries an error nothing is
\* logged for it.
C6_EmptyResultsSilent ==
    \A w \in Workers :
        ( /\ ParsedOK(w)
          /\ Len(ap[w].Results) = 0 )
        => /\ pc[w] = "done"
           /\ SubmitCalls(w) = <<>>
           /\ ap[w].Error = "" => (lgr[w] = <<>> /\ sanity[w] = <<>>)

\* a job was answered with an empty results array
C6_Witness ==
    \E w \in Workers :
        /\ pc[w] = "done"
        /\ resp[w] = Answer(StatusOK, Body(<<>>, ""))
        /\ Len(PostCalls(w)) = 1

\* C7: a job whose results are not empty but have no flattened identifier
\* among the keys of the corpus never calls SubmitComment and logs no
\* error, whatever the shuffle draws.
C7_NoMatchSilent ==
    \A w \in Workers :
        ( /\ ParsedOK(w)
          /\ ap[w].Error = ""
          /\ ap[w].Results # <<>>
          /\ KeyedIdentifiers(w) = {} )
        => /\ SubmitCalls(w) = <<>>
           /\ lgr[w] = <<>>
           /\ pc[w] \in {"shuffle", "select", "done"}

\* such a job has ended after a shuffle that changed the order of its smells
C7_Witness ==
    \E w \in Workers :
        /\ pc[w] = "done"
        /\ ParsedOK(w)
        /\ ap[w].Error = ""
        /\ KeyedIdentifiers(w) = {}
        /\ Len(smells[w]) >= 2
        /\ i[w] = Len(smells[w])
        /\ smells[w] # Flatten(ap[w].Results)

\* C8 as stated: when exactly one flattened identifier of a job is a key
\* of the corpus, the selection step selects the content of that key,
\* whatever the shuffle draws and whatever the content is.
C8_OnlyKeySelected ==
    \A w \in Workers :
        Selected(w) =>
            LET keyed == KeyedIdentifiers(w)
            IN \A id \in keyed :
                  keyed = {id}
                  => /\ Len(comment[w]) > 0
                     /\ comment[w] = comments[id]

\* C8 amended: when exactly one flattened identifier of a job is a key of
\* the corpus and its content is not empty, the selection step selects
\* that content, whatever the shuffle draws.
C8_OnlyCommentedKeySelected ==
    \A w \in Workers :
        Selected(w) =>
            LET keyed == KeyedIdentifiers(w)
            IN \A id \in keyed :
                  ( /\ keyed = {id}
                    /\ Len(comments[id]) > 0 )
                  => /\ Len(comment[w]) > 0
                     /\ comment[w] = comments[id]

\* the only key is the last of three shuffled smells and was selected
C8_Witness ==
    \E w \in Workers :
        /\ Selected(w)
        /\ Cardinality(KeyedIdentifiers(w)) = 1
        /\ Len(smells[w]) = 3
        /\ smells[w] # Flatten(ap[w].Results)
        /\ smells[w][3] \in KeyedIdentifiers(w)
        /\ smells[w][1] \notin KeyedIdentifiers(w)
        /\ smells[w][2] \notin KeyedIdentifiers(w)
        /\ comment[w] = comments[smells[w][3]]
        /\ Len(comment[w]) > 0

\* the key that the design gives a file: its path without the root prefix,
\* without leading separators and without its trailing extension
StripPrefix(path, root) ==
    IF HasPrefix(path, root) THEN Drop(path, Len(root)) ELSE path

RECURSIVE ExtAt(_, _)
ExtAt(path, n) ==
    IF n = 0 \/ path[n] = SLASH THEN 0
    ELSE IF path[n] = DOT THEN n
    ELSE ExtAt(path, n - 1)

StripExt(path) ==
    LET n == ExtAt(path, Len(path))
    IN IF n = 0 THEN path ELSE SubSeq(path, 1, n - 1)

DesignKey(root, path) == StripExt(TrimLeft(StripPrefix(path, root)))

RECURSIVE DesignCorpus(_, _, _)
DesignCorpus(t, pos, cm) ==
    IF pos > Len(t.entries) THEN cm
    ELSE LET e == t.entries[pos]
         IN IF e.isDir THEN DesignCorpus(t, pos + 1, cm)
            ELSE DesignCorpus(t, pos + 1,
                    Put(cm, DesignKey(RootDir(t.dir), RootDir(t.dir) \o e.name), e.content))

\* C9: the corpus that NewAnalyzer returns maps, for every regular file
\* under the root, the path without the root prefix, without a leading
\* separator and without the trailing extension to the content of the
\* file, and has no other entry.
C9_KeysFromRelativePaths ==
    outcome = "ok" => comments = DesignCorpus(tree, 1, EmptyMap)

\* C10: when the walk reports an error for an entry (the root is missing,
\* a directory cannot be listed, an entry cannot be lstat'ed) or a file
\* cannot be read, NewAnalyzer returns an error and nothing else happens.
C10_WalkErrorReturned ==
    \A k \in 1..(walkPos - 1) :
        (tree.entries[k].lstatErr \/ tree.entries[k].ioErr) => outcome = "error"

\* everything that belongs to the job of worker w
JobState(w) ==
    <<pc[w], msg[w], uuid[w], solution[w], req[w], resp[w], ap[w], smells[w],
      i[w], comment[w], calls[w], lgr[w], sanity[w]>>

\* C11: no step of process changes the comment corpus, and every step
\* changes the submission, payload, smells, comment and the other data of
\* one job at most, with any number of jobs interleaved.
C11_CorpusFrozenJobsApart ==
    [][ /\ comments' = comments
        /\ \E w \in Workers :
              \A v \in Workers \ {w} : JobState(v)' = JobState(v) ]_vars

\* two jobs are past the selection, each with a comment from the corpus
C11_Witness ==
    \E v, w \in Workers :
        /\ v # w
        /\ pc[v] = "done" /\ Len(SubmitCalls(v)) = 1
        /\ pc[w] = "submit" /\ Len(comment[w]) > 0
        /\ comment[v] # comment[w]

\* the operations of the outbound calls of worker w, in order
Ops(w) == [k \in 1..Len(calls[w]) |-> calls[w][k].op]

\* the position of a label in process
Rank(label) ==
    CASE label = "idle" -> 0
      [] label = "fetch" -> 1
      [] label = "do" -> 2
      [] label = "shuffle" -> 3
      [] label = "select" -> 4
      [] label = "submit" -> 5
      [] label = "done" -> 6

\* what has happened in the job of worker w when it is at the analysis
\* request, at the selection, at the publish call and after that call
StagesBehind(w) ==
    /\ pc[w] = "do" =>
          /\ Ops(w) = <<"FetchSolution">>
          /\ solution[w].TrackID = "ruby"
    /\ pc[w] \in {"shuffle", "select", "submit"} =>
          /\ Ops(w) = <<"FetchSolution", "POST">>
          /\ solution[w].TrackID = "ruby"
          /\ ParsedOK(w)
          /\ ap[w].Error = ""
          /\ ap[w].Results # <<>>
    /\ pc[w] = "submit" => Len(comment[w]) > 0
    /\ SubmitCalls(w) # <<>> =>
          /\ Ops(w) = <<"FetchSolution", "POST", "SubmitComment">>
          /\ solution[w].TrackID = "ruby"
          /\ ParsedOK(w)
          /\ ap[w].Error = ""
          /\ ap[w].Results # <<>>
          /\ Len(comment[w]) > 0
          /\ pc[w] = "done"

\* C12: a job only moves forward through fetch, track check, analysis,
\* selection and publish: its publish call comes after a successful fetch,
\* a passed track check, a payload with empty error and non-empty results
\* and a successful selection, in this order, and a job that has ended,
\* aborted or not, makes no further call and changes nothing.
C12_StagesInOrder ==
    /\ [](\A w \in Workers : StagesBehind(w))
    /\ [][ \A w \in Workers :
              /\ Rank(pc'[w]) >= Rank(pc[w])
              /\ pc[w] = "done" => JobState(w)' = JobState(w) ]_vars

\* one job has published while another one was aborted after its fetch
C12_Witness ==
    \E v, w \in Workers :
        /\ pc[v] = "done" /\ Ops(v) = <<"FetchSolution", "POST", "SubmitComment">>
        /\ pc[w] = "done" /\ Ops(w) = <<"FetchSolution">>

\* the analysis request of worker w was made and did not bring a payload
BadAnswer(w) == PostCalls(w) # <<>> /\ ~ParsedOK(w)

\* C13: when the analysis request fails, or the body cannot be read, or
\* the status is not OK, or the body is no parsable payload, the job ends
\* there and does nothing more: nothing of the body becomes the payload or
\* a smell and SubmitComment is not called, whatever the body of a non-OK
\* answer holds.
C13_BadAnswerAborts ==
    /\ [](\A w \in Workers :
             BadAnswer(w) => /\ pc[w] = "done"
                             /\ SubmitCalls(w) = <<>>
                             /\ ap[w] = NoPayload
                             /\ smells[w] = <<>>
                             /\ Len(lgr[w]) = 1)
    /\ [][ \A w \in Workers : BadAnswer(w) => JobState(w)' = JobState(w) ]_vars

\* an answer with a status other than OK whose body has results that all
\* have comments in the corpus
C13_Witness ==
    \E w \in Workers :
        /\ pc[w] = "done"
        /\ resp[w].StatusCode = StatusInternalServerError
        /\ resp[w].body.json
        /\ resp[w].body.obj["error"] = ""
        /\ Len(Flatten(resp[w].body.obj["results"])) >= 2
        /\ \A id \in Range(Flatten(resp[w].body.obj["results"])) :
              Len(Lookup(comments, id)) > 0

\* C14: within one job FetchSolution, the analysis request and
\* SubmitComment are each called at most once, whatever they return, and
\* a job that has ended is not taken up again.
C14_NoRetry ==
    /\ [](\A w \in Workers :
             /\ Len(FetchCalls(w)) <= 1
             /\ Len(PostCalls(w)) <= 1
             /\ Len(SubmitCalls(w)) <= 1)
    /\ [][ \A w \in Workers :
              /\ pc[w] = "done" => pc'[w] = "done" /\ calls'[w] = calls[w]
              /\ pc[w] # "idle" => msg'[w] = msg[w] ]_vars

\* jobs have ended after a failed fetch and after a failed publish
C14_Witness ==
    \E v, w \in Workers :
        /\ pc[v] = "done" /\ lgr[v] = <<81>> /\ Len(FetchCalls(v)) = 1
        /\ pc[w] = "done" /\ lgr[w] = <<180>> /\ Len(SubmitCalls(w)) = 1

\* how often each element occurs in a sequence
Occurrences(s) == [x \in Range(s) |-> Cardinality({ k \in 1..Len(s) : s[k] = x })]

RECURSIVE Factorial(_)
Factorial(n) == IF n <= 1 THEN 1 ELSE n * Factorial(n - 1)

\* the orders the shuffle loop can leave s in
Shuffles(s) == { Shuffle(s, d) : d \in DrawSeqs(Len(s)) }

\* C15: every round of the shuffle loop keeps the elements of smells and
\* their numbers, so that smells is a permutation of the flattened
\* sequence during and after the loop; the order after the loop is the
\* one the draws determine, and for n distinct identifiers there are n!
\* sequences of draws, no two of which leave the same order.
C15_ShuffleUniform ==
    /\ [][ \A w \in Workers :
              pc[w] = "shuffle" => Occurrences(smells'[w]) = Occurrences(smells[w]) ]_vars
    /\ [](\A w \in Workers :
             /\ pc[w] \in {"shuffle", "select"} =>
                   Occurrences(smells[w]) = Occurrences(Flatten(ap[w].Results))
             /\ pc[w] = "select" => smells[w] \in Shuffles(Flatten(ap[w].Results))
             /\ ( /\ pc[w] = "shuffle"
                  /\ i[w] = 0
                  /\ Cardinality(Range(smells[w])) = Len(smells[w]) )
                => LET s == smells[w]
                       D == DrawSeqs(Len(s))
                   IN /\ Cardinality(D) = Factorial(Len(s))
                      /\ Cardinality(Shuffles(s)) = Factorial(Len(s))
                      /\ \A d1, d2 \in D : Shuffle(s, d1) = Shuffle(s, d2) => d1 = d2)

\* the loop has left as many distinct identifiers as the bound allows in
\* the reverse of their flattened order
C15_Witness ==
    \E w \in Workers :
        /\ pc[w] = "select"
        /\ Len(smells[w]) = MaxSmells
        /\ Cardinality(Range(smells[w])) = MaxSmells
        /\ \A k \in 1..MaxSmells :
              smells[w][k] = Flatten(ap[w].Results)[MaxSmells + 1 - k]

\* the type, a slash and the key, as they are
Concat(type, key) == type \o <<SLASH>> \o key

RECURSIVE ConcatAll(_)
ConcatAll(results) ==
    IF results = <<>> THEN <<>>
    ELSE [k \in 1..Len(Head(results).Keys) |->
             Concat(Head(results).Type, Head(results).Keys[k])]
         \o ConcatAll(Tail(results))

\* C16: before the shuffle the flattened sequence holds, for each result
\* and each of its keys in order, the type, a slash and the key with no
\* other normalisation, also for an empty key or a key with dot segments.
C16_FlattenIsConcat ==
    \A w \in Workers :
        (pc[w] = "shuffle" /\ i[w] = 0) => smells[w] = ConcatAll(ap[w].Results)

\* C17: a job whose fetched submission is on another track than ruby
\* writes no log entry.
C17_SkipWritesNoLog ==
    \A w \in Workers :
        ( /\ pc[w] = "done"
          /\ solution[w] # NoSolution
          /\ solution[w].TrackID # "ruby" )
        => lgr[w] = <<>>

\* C17 (amended): a job whose fetched submission is on another track than
\* ruby writes exactly one log entry, the skip notice of line 86, and
\* makes no call after the fetch.
C17_SkipLogsNotice ==
    \A w \in Workers :
        ( /\ pc[w] # "fetch"
          /\ solution[w] # NoSolution
          /\ solution[w].TrackID # "ruby" )
        => /\ pc[w] = "done"
           /\ lgr[w] = <<86>>
           /\ Ops(w) = <<"FetchSolution">>

\* a job on the go track has ended with the skip notice
C17_Witness ==
    \E w \in Workers :
        /\ pc[w] = "done"
        /\ solution[w] # NoSolution
        /\ solution[w].TrackID = "go"
        /\ lgr[w] = <<86>>

\* the places in smells of worker w whose identifier has a comment of
\* non-zero length in the corpus
Hits(w) ==
    { k \in 1..Len(smells[w]) :
        /\ smells[w][k] \in DOMAIN comments
        /\ Len(comments[smells[w][k]]) > 0 }

\* the smallest element of a non-empty set of numbers
Min(S) == CHOOSE k \in S : \A m \in S : k <= m

\* the scan of worker w is over
Scanned(w) ==
    \/ pc[w] = "submit"
    \/ /\ pc[w] = "done"
       /\ ParsedOK(w)
       /\ ap[w].Error = ""
       /\ ap[w].Results # <<>>

\* C18: no empty content is passed to SubmitComment: the scan skips an
\* identifier whose corpus content has length zero as it skips one that
\* is no key, takes the content of the first shuffled identifier with
\* content, and the job ends without a publish call if there is none.
C18_EmptyContentSkipped ==
    \A w \in Workers :
        /\ pc[w] \in {"submit", "done"} =>
              \A k \in 1..Len(calls[w]) :
                  calls[w][k].op = "SubmitComment" => Len(calls[w][k].comment) > 0
        /\ Scanned(w) =>
              IF Hits(w) = {}
              THEN comment[w] = EMPTY /\ pc[w] = "done" /\ SubmitCalls(w) = <<>>
              ELSE comment[w] = comments[smells[w][Min(Hits(w))]]

\* the comment of a later identifier was published after the scan had
\* passed an identifier whose file is empty
C18_Witness ==
    \E w \in Workers :
        /\ pc[w] = "done"
        /\ Len(SubmitCalls(w)) = 1
        /\ Hits(w) # {}
        /\ \E k \in 1..(Min(Hits(w)) - 1) :
              /\ smells[w][k] \in DOMAIN comments
              /\ comments[smells[w][k]] = EMPTY

\* C19: every comment a job passes to SubmitComment is the corpus content
\* of an identifier of that job's own flattened results and is published
\* under the id of that job's own message, whatever other jobs do
\* meanwhile.
C19_OwnCommentOwnId ==
    \A w \in Workers :
        \A k \in 1..Len(calls[w]) :
            calls[w][k].op = "SubmitComment" =>
                /\ calls[w][k].uuid = GetIndex(msg[w], 0).val
                /\ \E id \in Identifiers(w) :
                      /\ id \in DOMAIN comments
                      /\ comments[id] = calls[w][k].comment

\* two jobs with different ids and different results have both published,
\* each a comment the other one's results have no identifier for
C19_Witness ==
    \E v, w \in Workers :
        /\ Len(SubmitCalls(v)) = 1
        /\ Len(SubmitCalls(w)) = 1
        /\ SubmitCalls(v)[1].uuid # SubmitCalls(w)[1].uuid
        /\ CommentedIdentifiers(v) \cap CommentedIdentifiers(w) = {}

\* C20: every job that has been started reaches its end, whatever the
\* other jobs do, the three outbound calls returning; the shuffle and the
\* scan come to an end also for results without keys.
C20_JobsTerminate ==
    \A w \in Workers : (pc[w] # "idle") ~> (pc[w] = "done")

\* a job has ended whose payload had results, none of them with a key
C20_Witness ==
    \E w \in Workers :
        /\ pc[w] = "done"
        /\ ParsedOK(w)
        /\ ap[w].Error = ""
        /\ ap[w].Results # <<>>
        /\ Flatten(ap[w].Results) = <<>>

====
